---- MODULE Spec2Model ----
(***************************************************************************)
(* Model of the concurrent execution engine of the prompt tester           *)
(* (src/tester.py, class AIPromptTester) together with the boundary of the *)
(* model invocation service (src/api_clients.py) and of the HTML report    *)
(* writer (src/formatters.py).                                             *)
(*                                                                         *)
(* The engine runs on one asyncio event loop.  A task keeps the loop until *)
(* it suspends; it suspends only where it really has to wait: on a         *)
(* semaphore without a free slot, on asyncio.gather, and on the awaited    *)
(* network call of the OpenAI client.  `running` is the task that owns the *)
(* loop (None when the loop is free to pick any ready task).  Every        *)
(* program point at which _update_console_output is called is a state of   *)
(* its own (pc values "r<line>"), so that what a render can observe is a   *)
(* state of the model.                                                     *)
(***************************************************************************)
EXTENDS Integers, Sequences, FiniteSets, TLC

\* ---------------------------------------------------------------- bounds
MaxRounds == 2
MaxCases == 2
\* the largest number of WorkItems (rounds x cases of the selected prompts) of a run
MaxWorkItems == 4
\* the same, for the runs that may be interrupted
MaxInterruptWorkItems == 3

\* The prompt names of prompts.json.
Prompts == {"A", "B"}

VARIABLES
    \* inputs of run(): fixed once chosen
    test_rounds,             \* tester.py:418-425
    selected_prompts,        \* tester.py:415
    cases_map,               \* prompt name -> number of cases, tester.py:154
    route,                   \* prompt name -> what call_api does with its vendor
    max_round_concurrency,   \* tester.py:35, 431
    max_prompt_concurrency,  \* tester.py:33, 97
    max_case_concurrency,    \* tester.py:34, 98
    \* progress state
    total_cases,             \* tester.py:37, 447
    completed_cases,         \* tester.py:38, 448
    round_progress,          \* self._round_progress,  round -> {total, completed}
    prompt_progress,         \* self._prompt_progress, <<round, prompt>> -> {total, completed}
    case_progress,           \* self._case_progress,   <<round, prompt, idx>> -> status
    console_lock,            \* self._console_lock: None or the task holding it
    \* gates
    round_semaphore,         \* tester.py:454, free slots (0 before creation)
    prompt_semaphore,        \* tester.py:350, round -> free slots
    semaphore,               \* tester.py:315, <<round, prompt>> -> free slots
    \* tasks
    running,                 \* the task that owns the event loop, or None
    mainPc, roundPc, promptPc, casePc,
    \* values the tasks carry
    call_return,             \* <<round, prompt, idx>> -> what call_api returned
    case_result,             \* <<round, prompt, idx>> -> result returned by run_single_case
    prompt_results,          \* <<round, prompt>> -> `results` of run_prompt_with_semaphore
    all_results,             \* round -> value returned by run_all_tests
    all_rounds_results,      \* tester.py:451, 467-468
    report,                  \* prefix of the report file written, or "none"
    render_calls,            \* the calls of save_results_as_html made so far
    returned,                \* <<round, prompt>> -> the case indexes in the order in
                             \* which the case tasks of the gather have finished
    \* one call of process_prompt, utils.py:17-65
    prompt_config,           \* its first argument: name and prompt text
    case,                    \* its second argument: args and targetLanguage
    resolved,                \* what the call has returned or raised
    \* what the setup phase of run() leaves
    prompts,                 \* the names in self.prompts, tester.py:29, 151
    logged,                  \* the failures reported with log_error
    \* the console
    clock,                   \* the last reading of time.time(), in tenths of a second
    last_console_update,     \* self._last_console_update, tester.py:50, 600
    rendered_at              \* the call of _update_console_output that ended last

inputs == <<test_rounds, selected_prompts, cases_map, route,
            max_round_concurrency, max_prompt_concurrency, max_case_concurrency>>
progress == <<total_cases, completed_cases, round_progress, prompt_progress,
              case_progress>>
gates == <<round_semaphore, prompt_semaphore, semaphore>>
pcs == <<mainPc, roundPc, promptPc, casePc>>
values == <<call_return, case_result, prompt_results, all_results,
            all_rounds_results, report, render_calls>>
console == <<clock, last_console_update, rendered_at>>
loaded == <<prompts, logged>>
resolution == <<prompt_config, case, resolved>>
vars == <<inputs, loaded, progress, console_lock, gates, running, pcs, values,
          returned, resolution, console>>

\* ---------------------------------------------------------------- helpers
None == <<>>
EmptyMap == [x \in {} |-> 0]

MainTask == <<"main">>
RoundTask(r) == <<"round", r>>
PromptTask(r, p) == <<"prompt", r, p>>
CaseTask(r, p, i) == <<"case", r, p, i>>

AllRounds == 1..MaxRounds
AllCaseIdx == 0..(MaxCases - 1)

\* f"round_{round_num}_{prompt_name}" and f"round_{round_num}_{prompt_name}_{case_idx}"
PromptKey(r, p) == <<r, p>>
CaseKey(r, p, i) == <<r, p, i>>

\* status_list of run_single_case and the error status
StatusList == <<"waiting", "start_call", "calling", "responding", "processing", "done">>
StatusError == "error"

RECURSIVE SumOver(_, _)
SumOver(f, S) ==
    IF S = {} THEN 0
    ELSE LET x == CHOOSE y \in S : TRUE IN f[x] + SumOver(f, S \ {x})

\* sum(len(self.cases_map.get(prompt_name, [])) for prompt_name in selected_prompts)
CasesPerRound == SumOver(cases_map, selected_prompts)

\* range(test_rounds) shifted by one, and enumerate(cases)
Rounds == 1..test_rounds
CaseIdx(p) == 0..(cases_map[p] - 1)

\* self._console_update_interval = 0.2, tester.py:51, in tenths of a second
ConsoleUpdateInterval == 2

\* ---------------------------------------------------------------- Init
Vendors == {"openai", "anthropic", "rejected"}

Init ==
    /\ test_rounds \in 1..MaxRounds
    /\ max_round_concurrency \in 1..test_rounds
    /\ selected_prompts \in (SUBSET Prompts) \ {{}}
    \* entries of prompts that are not selected are never read: pinned
    /\ cases_map \in [Prompts -> 0..MaxCases]
    /\ \A p \in Prompts : p \notin selected_prompts => cases_map[p] = 0
    \* the names are interchangeable: "A" names the prompt with the longer case list
    /\ cases_map["B"] <= cases_map["A"]
    /\ test_rounds * CasesPerRound <= MaxWorkItems
    \* a capacity above the number of tasks it gates admits all of them, as the
    \* capacity equal to that number does
    /\ max_prompt_concurrency \in 1..Cardinality(selected_prompts)
    /\ max_case_concurrency \in 1..(IF cases_map["A"] = 0 THEN 1 ELSE cases_map["A"])
    /\ route \in [Prompts -> Vendors]
    /\ \A p \in Prompts : cases_map[p] = 0 => route[p] = "openai"
    /\ total_cases = 0
    /\ completed_cases = 0
    /\ round_progress = EmptyMap
    /\ prompt_progress = EmptyMap
    /\ case_progress = EmptyMap
    /\ console_lock = None
    /\ round_semaphore = 0
    /\ prompt_semaphore = EmptyMap
    /\ semaphore = EmptyMap
    /\ running = None
    /\ mainPc = "idle"
    /\ roundPc = [r \in AllRounds |-> "absent"]
    /\ promptPc = [k \in AllRounds \X Prompts |-> "absent"]
    /\ casePc = [k \in AllRounds \X Prompts \X AllCaseIdx |-> "absent"]
    /\ call_return = EmptyMap
    /\ case_result = EmptyMap
    /\ prompt_results = EmptyMap
    /\ all_results = EmptyMap
    /\ all_rounds_results = EmptyMap
    /\ report = "none"
    /\ render_calls = <<>>
    /\ returned = EmptyMap
    \* no call of process_prompt is followed
    /\ prompt_config = None
    /\ case = None
    /\ resolved = None
    /\ prompts = Prompts
    /\ logged = {}
    \* the clock has long passed the first interval when the program starts
    /\ clock = ConsoleUpdateInterval
    /\ last_console_update = 0
    /\ rendered_at = None

\* ---------------------------------------------------------------- pieces of the code
\* dict[key] = value
Put(f, k, v) == (k :> v) @@ f

\* asyncio.Semaphore(self.max_round_concurrency), tester.py:454
NewRoundSemaphore_OneMore == max_round_concurrency + 1
NewRoundSemaphore == max_round_concurrency
\* asyncio.Semaphore(self.max_prompt_concurrency), tester.py:350
NewPromptSemaphore_OneMore == max_prompt_concurrency + 1
NewPromptSemaphore == max_prompt_concurrency
\* asyncio.Semaphore(self.max_case_concurrency), tester.py:315
NewCaseSemaphore_OneMore == max_case_concurrency + 1
NewCaseSemaphore == max_case_concurrency

\* the exit of `async with semaphore` around run_single_case(case, i),
\* tester.py:317-319: the slot is given back however the body has ended
ExitCaseSemaphore_LeakOnError(r, p, i) ==
    semaphore' =
        IF case_progress[CaseKey(r, p, i)] = StatusError
        THEN semaphore
        ELSE [semaphore EXCEPT ![PromptKey(r, p)] = @ + 1]
ExitCaseSemaphore_KeepsSlot(r, p, i) ==
    semaphore' = semaphore
ExitCaseSemaphore(r, p, i) ==
    semaphore' = [semaphore EXCEPT ![PromptKey(r, p)] = @ + 1]

\* self.total_cases = test_rounds * cases_per_round, tester.py:446-447
TotalCases_OneRound == CasesPerRound
TotalCases == test_rounds * CasesPerRound
\* round_total_cases, tester.py:337
RoundTotalCases_Unselected == SumOver(cases_map, Prompts \ selected_prompts)
RoundTotalCases == CasesPerRound

\* what call_api hands back for a call that reached a provider method:
\* (content, elapsed_time, tokens, processed_prompt) of api_clients.py:85/130 on
\* success, the error tuple of api_clients.py:86-90/131-135 when the provider fails
ApiSuccess(p) ==
    [content |-> "response", elapsed_time |-> "measured",
     tokens |-> IF route[p] = "openai"
                THEN {"prompt_tokens", "completion_tokens", "total_tokens"}
                ELSE {"input_tokens", "output_tokens"},
     processed_prompt |-> "processed"]
ApiFailure(p) ==
    [content |-> "error_text", elapsed_time |-> "measured",
     tokens |-> {"error"}, processed_prompt |-> "template"]
ApiReturns(p) == {ApiSuccess(p), ApiFailure(p)}

\* the entry of self.prompts for prompt p, as far as the results echo it: its
\* vendor is known to the model by what call_api does with it
PromptConfig(p) == [name |-> p, vendor |-> route[p], model |-> <<"model", p>>]

\* the keys under which the provider methods hand back token counts,
\* api_clients.py:79-83 and 125-128
TokenCountKeys ==
    {"prompt_tokens", "completion_tokens", "total_tokens", "input_tokens",
     "output_tokens"}

\* the result dict of the success path, tester.py:250-264
SuccessResult(p, i, ret) ==
    [prompt_name |-> p, model |-> PromptConfig(p).model,
     vendor |-> PromptConfig(p).vendor, case_id |-> i,
     output_content |-> ret.content,
     elapsed_time |-> ret.elapsed_time, tokens |-> ret.tokens,
     processed_prompt |-> ret.processed_prompt]
\* the result dict of the except path, tester.py:297-311
ErrorResult_KeepsOutput(p, i) ==
    [prompt_name |-> p, model |-> PromptConfig(p).model,
     vendor |-> PromptConfig(p).vendor, case_id |-> i,
     output_content |-> "response",
     elapsed_time |-> "zero", tokens |-> {"error"},
     processed_prompt |-> "template"]
ErrorResult_Measured(p, i) ==
    [prompt_name |-> p, model |-> PromptConfig(p).model,
     vendor |-> PromptConfig(p).vendor, case_id |-> i,
     output_content |-> "error_text",
     elapsed_time |-> "measured", tokens |-> {"error"},
     processed_prompt |-> "template"]
ErrorResult(p, i) ==
    [prompt_name |-> p, model |-> PromptConfig(p).model,
     vendor |-> PromptConfig(p).vendor, case_id |-> i,
     output_content |-> "error_text",
     elapsed_time |-> "zero", tokens |-> {"error"},
     processed_prompt |-> "template"]

\* where run_single_case goes on after the completion update of its except
\* clause, tester.py:281-293: to the render before the error result is returned
AfterExcept_Retry == "r231"
AfterExcept == "r293"

\* the completion update made under the lock, tester.py:267-275 and 283-291
CompleteCase_KeepsStatus(r, p, i, status) ==
    /\ prompt_progress' =
         IF PromptKey(r, p) \in DOMAIN prompt_progress
         THEN [prompt_progress EXCEPT ![PromptKey(r, p)].completed = @ + 1]
         ELSE prompt_progress
    /\ case_progress' = case_progress
    /\ completed_cases' = completed_cases + 1
CompleteCase_SkipsPromptNode(r, p, i, status) ==
    /\ prompt_progress' = prompt_progress
    /\ case_progress' = [case_progress EXCEPT ![CaseKey(r, p, i)] = status]
    /\ completed_cases' = completed_cases + 1
CompleteCase(r, p, i, status) ==
    /\ prompt_progress' =
         IF PromptKey(r, p) \in DOMAIN prompt_progress
         THEN [prompt_progress EXCEPT ![PromptKey(r, p)].completed = @ + 1]
         ELSE prompt_progress
    /\ case_progress' = [case_progress EXCEPT ![CaseKey(r, p, i)] = status]
    /\ completed_cases' = completed_cases + 1

\* self._round_progress[round_num]["completed"] += len(results) under the lock,
\* tester.py:356-359
AdvanceRound_Assign(r, n) ==
    round_progress' =
        IF r \in DOMAIN round_progress
        THEN [round_progress EXCEPT ![r].completed = n]
        ELSE round_progress
AdvanceRound_ByOne(r, n) ==
    round_progress' =
        IF r \in DOMAIN round_progress
        THEN [round_progress EXCEPT ![r].completed = @ + (IF n > 0 THEN 1 ELSE 0)]
        ELSE round_progress
AdvanceRound_FirstRound(r, n) ==
    round_progress' =
        IF 1 \in DOMAIN round_progress
        THEN [round_progress EXCEPT ![1].completed = @ + n]
        ELSE round_progress
AdvanceRound(r, n) ==
    round_progress' =
        IF r \in DOMAIN round_progress
        THEN [round_progress EXCEPT ![r].completed = @ + n]
        ELSE round_progress

\* what run_test returns for a prompt without configuration or without cases,
\* tester.py:183-193
NoCaseResults_Placeholder(p) == <<ErrorResult(p, 0)>>
NoCaseResults(p) == <<>>

\* a case task of the gather at tester.py:322-323 finishes: the gather takes note
\* of it after those that finished before
TaskFinished(r, p, i) ==
    returned' =
        IF PromptKey(r, p) \in DOMAIN returned
        THEN [returned EXCEPT ![PromptKey(r, p)] = Append(@, i)]
        ELSE Put(returned, PromptKey(r, p), <<i>>)

\* results = await asyncio.gather(*case_tasks), tester.py:322-323
GatherCaseResults_AsCompleted(r, p) ==
    [j \in 1..cases_map[p] |->
        case_result[CaseKey(r, p, returned[PromptKey(r, p)][j])]]
GatherCaseResults_DropFailed(r, p) ==
    SelectSeq([j \in 1..cases_map[p] |-> case_result[CaseKey(r, p, j - 1)]],
              LAMBDA res : "error" \notin res.tokens)
GatherCaseResults_AbortOnFailure(r, p) ==
    IF \E j \in 1..cases_map[p] : "error" \in case_result[CaseKey(r, p, j - 1)].tokens
    THEN <<>>
    ELSE [j \in 1..cases_map[p] |-> case_result[CaseKey(r, p, j - 1)]]
GatherCaseResults(r, p) ==
    [j \in 1..cases_map[p] |-> case_result[CaseKey(r, p, j - 1)]]

\* the prompts kept by `if prompt_results:`, tester.py:371-373
KeptPrompts_All(r) == selected_prompts
KeptPrompts(r) ==
    {p \in selected_prompts : prompt_results[PromptKey(r, p)] # <<>>}
CollectRound(r) ==
    [p \in KeptPrompts(r) |-> prompt_results[PromptKey(r, p)]]

\* all_rounds_results[f"round {round_num}"] = results, tester.py:467-468
CollectRun_FirstRound == [r \in {1} |-> all_results[r]]
CollectRun == [r \in Rounds |-> all_results[r]]

\* f'{token_value:,}' of formatters.py:601 raises ValueError for a str value,
\* and the only str value is the one stored under the key "error"
SaveRaises(test_results) ==
    \E r \in DOMAIN test_results :
      \E p \in DOMAIN test_results[r] :
        \E j \in DOMAIN test_results[r][p] :
          "error" \in test_results[r][p][j].tokens

\* filename_prefix of save_results_as_html: its default (formatters.py:94) and the
\* one passed on the interruption path (tester.py:567-568)
DefaultPrefix == "test_results"
InterruptedPrefix_Default == DefaultPrefix
InterruptedPrefix == "interrupted_test"

\* one call of save_results_as_html(test_results, output_dir, filename_prefix)
RenderCall(prefix, test_results, raised) ==
    [filename_prefix |-> prefix, test_results |-> test_results, raised |-> raised]

\* ---------------------------------------------------------------- run()
\* tester.py:443-464: totals, round semaphore, round tasks, gather
RunStart ==
    /\ mainPc = "idle" /\ running = None
    /\ total_cases' = TotalCases
    /\ completed_cases' = 0
    /\ round_semaphore' = NewRoundSemaphore
    /\ roundPc' = [r \in AllRounds |-> IF r \in Rounds THEN "queued" ELSE "absent"]
    /\ mainPc' = "gather"
    /\ UNCHANGED <<inputs, resolution, returned, loaded, console, round_progress, prompt_progress, case_progress,
                   console_lock, prompt_semaphore, semaphore, running,
                   promptPc, casePc, values>>

\* tester.py:464-468: gather returns, the rounds are put into all_rounds_results
RunCollect ==
    /\ mainPc = "gather" /\ running = None
    /\ \A r \in Rounds : roundPc[r] = "done"
    /\ all_rounds_results' = CollectRun
    /\ mainPc' = "saving"
    /\ running' = MainTask
    /\ UNCHANGED <<inputs, resolution, returned, loaded, console, progress, console_lock, gates, roundPc, promptPc,
                   casePc, call_return, case_result, prompt_results,
                   all_results, report, render_calls>>

\* tester.py:473-482 and 581-585: the report is written, or its exception is re-raised
SaveResults ==
    /\ mainPc = "saving" /\ running = MainTask
    /\ render_calls' =
         Append(render_calls, RenderCall(DefaultPrefix, all_rounds_results,
                                         SaveRaises(all_rounds_results)))
    /\ IF SaveRaises(all_rounds_results)
       THEN mainPc' = "fatal" /\ report' = report
       ELSE mainPc' = "completed" /\ report' = DefaultPrefix
    /\ running' = None
    /\ UNCHANGED <<inputs, resolution, returned, loaded, console, progress, console_lock, gates, roundPc, promptPc,
                   casePc, call_return, case_result, prompt_results,
                   all_results, all_rounds_results>>

\* ---------------------------------------------------------------- a round
\* tester.py:456-458 and 334-345: the round takes a slot of the round semaphore;
\* a round without cases returns {} at once, otherwise its progress node is made
RoundAdmit(r) ==
    /\ roundPc[r] = "queued" /\ running = None
    /\ round_semaphore > 0
    /\ IF RoundTotalCases = 0
       THEN /\ all_results' = Put(all_results, r, EmptyMap)
            /\ roundPc' = [roundPc EXCEPT ![r] = "done"]
            /\ UNCHANGED <<round_semaphore, round_progress, running>>
       ELSE /\ console_lock = None
            /\ round_semaphore' = round_semaphore - 1
            /\ round_progress' =
                 Put(round_progress, r, [total |-> RoundTotalCases, completed |-> 0])
            /\ roundPc' = [roundPc EXCEPT ![r] = "r347"]
            /\ running' = RoundTask(r)
            /\ UNCHANGED all_results
    /\ UNCHANGED <<inputs, resolution, returned, loaded, console, total_cases, completed_cases, prompt_progress,
                   case_progress, console_lock, prompt_semaphore, semaphore,
                   mainPc, promptPc, casePc, call_return, case_result,
                   prompt_results, all_rounds_results, report,
                   render_calls>>

\* tester.py:347-368: render, prompt semaphore (asyncio.Semaphore takes any value
\* that is not negative), prompt tasks, gather
RoundSpawn(r) ==
    /\ roundPc[r] = "r347" /\ running = RoundTask(r)
    /\ NewPromptSemaphore >= 0
    /\ prompt_semaphore' = Put(prompt_semaphore, r, NewPromptSemaphore)
    /\ promptPc' = [k \in AllRounds \X Prompts |->
                      IF k[1] = r /\ k[2] \in selected_prompts
                      THEN "queued" ELSE promptPc[k]]
    /\ roundPc' = [roundPc EXCEPT ![r] = "gather"]
    /\ running' = None
    /\ UNCHANGED <<inputs, resolution, returned, loaded, console, progress, console_lock, round_semaphore, semaphore,
                   mainPc, casePc, values>>

\* tester.py:368-375 and 457-458: gather returns, the round's dict is built and
\* returned, the slot of the round semaphore is given back
RoundCollect(r) ==
    /\ roundPc[r] = "gather" /\ running = None
    /\ \A p \in selected_prompts : promptPc[<<r, p>>] = "done"
    /\ all_results' = Put(all_results, r, CollectRound(r))
    /\ round_semaphore' = round_semaphore + 1
    /\ roundPc' = [roundPc EXCEPT ![r] = "done"]
    /\ UNCHANGED <<inputs, resolution, returned, loaded, console, progress, console_lock, prompt_semaphore, semaphore,
                   running, mainPc, promptPc, casePc, call_return, case_result,
                   prompt_results, all_rounds_results, report,
                   render_calls>>

\* ---------------------------------------------------------------- a prompt
\* tester.py:352-354 and 181-201: the prompt takes a slot of its round's prompt
\* semaphore and enters run_test; without cases run_test returns [] and the round
\* node is advanced by len([]), otherwise the prompt node is made under the lock
PromptAdmit(r, p) ==
    /\ promptPc[<<r, p>>] = "queued" /\ running = None
    /\ prompt_semaphore[r] > 0
    /\ console_lock = None
    /\ prompt_semaphore' = [prompt_semaphore EXCEPT ![r] = @ - 1]
    /\ running' = PromptTask(r, p)
    /\ IF cases_map[p] = 0
       THEN /\ prompt_results' = Put(prompt_results, PromptKey(r, p), NoCaseResults(p))
            /\ AdvanceRound(r, Len(NoCaseResults(p)))
            /\ promptPc' = [promptPc EXCEPT ![<<r, p>>] = "r361"]
            /\ UNCHANGED <<prompt_progress, console_lock>>
       ELSE /\ prompt_progress' =
                 Put(prompt_progress, PromptKey(r, p),
                     [total |-> cases_map[p], completed |-> 0])
            /\ console_lock' = PromptTask(r, p)
            /\ promptPc' = [promptPc EXCEPT ![<<r, p>>] = "r202"]
            /\ UNCHANGED <<prompt_results, round_progress>>
    /\ UNCHANGED <<inputs, resolution, returned, loaded, console, total_cases, completed_cases,
                   case_progress, round_semaphore, semaphore, mainPc, roundPc,
                   casePc, call_return, case_result, all_results,
                   all_rounds_results, report, render_calls>>

\* tester.py:202 and 315-323: render inside the lock, the lock is released, the
\* case semaphore of this run_test call is made (asyncio.Semaphore takes any
\* value that is not negative), the case tasks are gathered
PromptSpawn(r, p) ==
    /\ promptPc[<<r, p>>] = "r202" /\ running = PromptTask(r, p)
    /\ NewCaseSemaphore >= 0
    /\ console_lock' = None
    /\ semaphore' = Put(semaphore, PromptKey(r, p), NewCaseSemaphore)
    /\ casePc' = [k \in AllRounds \X Prompts \X AllCaseIdx |->
                    IF k[1] = r /\ k[2] = p /\ k[3] \in CaseIdx(p)
                    THEN "queued" ELSE casePc[k]]
    /\ promptPc' = [promptPc EXCEPT ![<<r, p>>] = "gather"]
    /\ running' = None
    /\ UNCHANGED <<inputs, resolution, returned, loaded, console, progress, round_semaphore, prompt_semaphore, mainPc,
                   roundPc, values>>

\* tester.py:323-325 and 354-359: gather returns the case results in task order,
\* run_test returns them, the round node is advanced by their number under the lock
PromptCollect(r, p) ==
    /\ promptPc[<<r, p>>] = "gather" /\ running = None
    /\ \A i \in CaseIdx(p) : casePc[<<r, p, i>>] = "done"
    /\ console_lock = None
    /\ prompt_results' = Put(prompt_results, PromptKey(r, p), GatherCaseResults(r, p))
    /\ AdvanceRound(r, Len(GatherCaseResults(r, p)))
    /\ promptPc' = [promptPc EXCEPT ![<<r, p>>] = "r361"]
    /\ running' = PromptTask(r, p)
    /\ UNCHANGED <<inputs, resolution, returned, loaded, console, total_cases, completed_cases, prompt_progress,
                   case_progress, console_lock, gates, mainPc, roundPc, casePc,
                   call_return, case_result, all_results, all_rounds_results,
                   report, render_calls>>

\* tester.py:361-362 and 353: render, return (prompt_name, results), the slot of
\* the prompt semaphore is given back
PromptReturn(r, p) ==
    /\ promptPc[<<r, p>>] = "r361" /\ running = PromptTask(r, p)
    /\ prompt_semaphore' = [prompt_semaphore EXCEPT ![r] = @ + 1]
    /\ promptPc' = [promptPc EXCEPT ![<<r, p>>] = "done"]
    /\ running' = None
    /\ UNCHANGED <<inputs, resolution, returned, loaded, console, progress, console_lock, round_semaphore, semaphore,
                   mainPc, roundPc, casePc, values>>

\* ---------------------------------------------------------------- a case
\* tester.py:317-319 and 220-229: the case takes a slot of its prompt's case
\* semaphore and registers its progress entry under the lock
CaseAdmit(r, p, i) ==
    /\ casePc[<<r, p, i>>] = "queued" /\ running = None
    /\ semaphore[PromptKey(r, p)] > 0
    /\ console_lock = None
    /\ semaphore' = [semaphore EXCEPT ![PromptKey(r, p)] = @ - 1]
    /\ case_progress' = Put(case_progress, CaseKey(r, p, i), StatusList[2])
    /\ casePc' = [casePc EXCEPT ![<<r, p, i>>] = "r231"]
    /\ running' = CaseTask(r, p, i)
    /\ UNCHANGED <<inputs, resolution, returned, loaded, console, total_cases, completed_cases, round_progress,
                   prompt_progress, console_lock, round_semaphore,
                   prompt_semaphore, mainPc, roundPc, promptPc, values>>

\* tester.py:231-235: render, then the status moves to "calling" without the lock
CaseCalling(r, p, i) ==
    /\ casePc[<<r, p, i>>] = "r231" /\ running = CaseTask(r, p, i)
    /\ case_progress' = [case_progress EXCEPT ![CaseKey(r, p, i)] = StatusList[3]]
    /\ casePc' = [casePc EXCEPT ![<<r, p, i>>] = "r237"]
    /\ UNCHANGED <<inputs, resolution, returned, loaded, console, total_cases, completed_cases, round_progress,
                   prompt_progress, console_lock, gates, running, mainPc,
                   roundPc, promptPc, values>>

\* tester.py:237-242 with api_clients.py:137-148, case by case of call_api:
\*  - the vendor is unknown or its client is missing: ValueError, caught at
\*    tester.py:281-291, which completes the case with the error status;
\*  - anthropic: the client is the synchronous one, the call returns (its answer
\*    or its error tuple) without giving up the loop, tester.py:245;
\*  - openai: the task waits for the network
CaseInvoke(r, p, i) ==
    /\ casePc[<<r, p, i>>] = "r237" /\ running = CaseTask(r, p, i)
    /\ \/ /\ route[p] = "rejected"
          /\ console_lock = None
          /\ CompleteCase(r, p, i, StatusError)
          /\ casePc' = [casePc EXCEPT ![<<r, p, i>>] = AfterExcept]
          /\ UNCHANGED <<running, call_return>>
       \/ /\ route[p] = "anthropic"
          /\ \E ret \in ApiReturns(p) :
               call_return' = Put(call_return, CaseKey(r, p, i), ret)
          /\ case_progress' = [case_progress EXCEPT ![CaseKey(r, p, i)] = StatusList[5]]
          /\ casePc' = [casePc EXCEPT ![<<r, p, i>>] = "r247"]
          /\ UNCHANGED <<running, prompt_progress, completed_cases>>
       \/ /\ route[p] = "openai"
          /\ casePc' = [casePc EXCEPT ![<<r, p, i>>] = "await"]
          /\ running' = None
          /\ UNCHANGED <<call_return, case_progress, prompt_progress, completed_cases>>
    /\ UNCHANGED <<inputs, resolution, returned, loaded, console, total_cases, round_progress, console_lock, gates,
                   mainPc, roundPc, promptPc, case_result, prompt_results,
                   all_results, all_rounds_results, report, render_calls>>

\* tester.py:240-245 with api_clients.py:85-90: the awaited OpenAI call returns its
\* answer or its error tuple, the status moves to "processing" without the lock
CaseResume(r, p, i) ==
    /\ casePc[<<r, p, i>>] = "await" /\ running = None
    /\ \E ret \in ApiReturns(p) :
         call_return' = Put(call_return, CaseKey(r, p, i), ret)
    /\ case_progress' = [case_progress EXCEPT ![CaseKey(r, p, i)] = StatusList[5]]
    /\ casePc' = [casePc EXCEPT ![<<r, p, i>>] = "r247"]
    /\ running' = CaseTask(r, p, i)
    /\ UNCHANGED <<inputs, resolution, returned, loaded, console, total_cases, completed_cases, round_progress,
                   prompt_progress, console_lock, gates, mainPc, roundPc,
                   promptPc, case_result, prompt_results, all_results,
                   all_rounds_results, report, render_calls>>

\* tester.py:247-275: render, the result dict is built, the completion update is
\* made under the lock
CaseComplete(r, p, i) ==
    /\ casePc[<<r, p, i>>] = "r247" /\ running = CaseTask(r, p, i)
    /\ console_lock = None
    /\ CompleteCase(r, p, i, StatusList[6])
    /\ casePc' = [casePc EXCEPT ![<<r, p, i>>] = "r277"]
    /\ UNCHANGED <<inputs, resolution, returned, loaded, console, total_cases, round_progress, console_lock, gates,
                   running, mainPc, roundPc, promptPc, values>>

\* tester.py:277-279 and 318: render, the result is returned, the slot of the
\* case semaphore is given back
CaseReturn(r, p, i) ==
    /\ casePc[<<r, p, i>>] = "r277" /\ running = CaseTask(r, p, i)
    /\ case_result' =
         Put(case_result, CaseKey(r, p, i),
             SuccessResult(p, i, call_return[CaseKey(r, p, i)]))
    /\ ExitCaseSemaphore(r, p, i)
    /\ TaskFinished(r, p, i)
    /\ casePc' = [casePc EXCEPT ![<<r, p, i>>] = "done"]
    /\ running' = None
    /\ UNCHANGED <<inputs, resolution, loaded, console, progress, console_lock, round_semaphore,
                   prompt_semaphore, mainPc, roundPc, promptPc, call_return,
                   prompt_results, all_results, all_rounds_results, report,
                   render_calls>>

\* tester.py:293-312 and 318: render, the error result is built and returned, the
\* slot of the case semaphore is given back
CaseReturnError(r, p, i) ==
    /\ casePc[<<r, p, i>>] = "r293" /\ running = CaseTask(r, p, i)
    /\ case_result' = Put(case_result, CaseKey(r, p, i), ErrorResult(p, i))
    /\ ExitCaseSemaphore(r, p, i)
    /\ TaskFinished(r, p, i)
    /\ casePc' = [casePc EXCEPT ![<<r, p, i>>] = "done"]
    /\ running' = None
    /\ UNCHANGED <<inputs, resolution, loaded, console, progress, console_lock, round_semaphore,
                   prompt_semaphore, mainPc, roundPc, promptPc, call_return,
                   prompt_results, all_results, all_rounds_results, report,
                   render_calls>>

\* ---------------------------------------------------------------- interruption
\* answer == 'y' or answer == '\r' or answer == '\n' or answer == '', tester.py:548
Answers == {"y", "return", "n"}
SaveConfirmed(answer) == answer \in {"y", "return", "newline", ""}

\* partial_results of tester.py:554-564: one entry, whose value holds under "info"
\* a dict of the two counters, a time stamp and a note, and no CaseResult
PartialResults ==
    [partial |->
        [info |-> [completed |-> completed_cases, total |-> total_cases,
                   interrupted_time |-> "now", note |-> "incomplete"]]]

\* formatters.py:124-128 on such a value: `for result in results` walks the keys
\* of the dict under each name, and result["elapsed_time"] on a key (a str) raises
\* TypeError, before anything is written
SavePartialRaises(partial_results) ==
    \E round_name \in DOMAIN partial_results :
      \E prompt_name \in DOMAIN partial_results[round_name] :
        DOMAIN partial_results[round_name][prompt_name] # {}

\* total_cases of formatters.py:120-126: the sum of len(results) over the rounds
\* and the names of test_results, which is what the report shows as its cases
RenderedCases(test_results) ==
    LET pairs == {k \in (DOMAIN test_results) \X
                        (UNION {DOMAIN test_results[r] : r \in DOMAIN test_results}) :
                     k[2] \in DOMAIN test_results[k[1]]}
    IN SumOver([k \in pairs |-> Cardinality(DOMAIN test_results[k[1]][k[2]])], pairs)

\* sys.exit(0), tester.py:579: run() is left for good and the loop with it
ExitProcess == MainTask

\* tester.py:520-579: KeyboardInterrupt is raised in run()'s own code, that is
\* while the main task owns the loop: before the rounds are started, while the
\* results are saved, or after the final report is written and before the
\* terminal is put into raw mode.  With something completed the user is asked
\* whether to save; the save is attempted and its exception is caught and logged
\* (tester.py:574-575); then the process exits.
KeyboardInterruptHandler ==
    /\ \/ mainPc \in {"idle", "completed"} /\ running = None
       \/ mainPc = "saving" /\ running = MainTask
    /\ IF completed_cases > 0
       THEN \E answer \in Answers :
              IF SaveConfirmed(answer)
              THEN /\ render_calls' =
                        Append(render_calls,
                               RenderCall(InterruptedPrefix, PartialResults,
                                          SavePartialRaises(PartialResults)))
                   /\ report' = IF SavePartialRaises(PartialResults)
                                THEN report ELSE InterruptedPrefix
              ELSE UNCHANGED <<render_calls, report>>
       ELSE UNCHANGED <<render_calls, report>>
    /\ mainPc' = "exited"
    /\ running' = ExitProcess
    /\ UNCHANGED <<inputs, resolution, returned, loaded, console, progress, console_lock, gates, roundPc, promptPc,
                   casePc, call_return, case_result, prompt_results,
                   all_results, all_rounds_results>>

\* what becomes of the loop when the interrupt arrives while run() is suspended
\* in `await asyncio.gather(*round_tasks)`, tester.py:464: the exception does not
\* surface in run() as KeyboardInterrupt, the runner cancels the tasks, and the
\* CancelledError raised at the await is caught by neither except clause of
\* run() (tester.py:520, 581), so run() ends and no task is resumed
CancelledLoop_KeepsRunning == None
CancelledLoop == MainTask

\* the interrupt arrives between two task steps of the gather phase
CancelRun ==
    /\ mainPc = "gather" /\ running = None
    /\ mainPc' = "cancelled"
    /\ running' = CancelledLoop
    /\ UNCHANGED <<inputs, resolution, returned, loaded, console, progress, console_lock, gates, roundPc, promptPc,
                   casePc, values>>

\* ---------------------------------------------------------------- specification
Next ==
    \/ RunStart
    \/ RunCollect
    \/ SaveResults
    \/ \E r \in AllRounds : RoundAdmit(r)
    \/ \E r \in AllRounds : RoundSpawn(r)
    \/ \E r \in AllRounds : RoundCollect(r)
    \/ \E r \in AllRounds, p \in Prompts : PromptAdmit(r, p)
    \/ \E r \in AllRounds, p \in Prompts : PromptSpawn(r, p)
    \/ \E r \in AllRounds, p \in Prompts : PromptCollect(r, p)
    \/ \E r \in AllRounds, p \in Prompts : PromptReturn(r, p)
    \/ \E r \in AllRounds, p \in Prompts, i \in AllCaseIdx : CaseAdmit(r, p, i)
    \/ \E r \in AllRounds, p \in Prompts, i \in AllCaseIdx : CaseCalling(r, p, i)
    \/ \E r \in AllRounds, p \in Prompts, i \in AllCaseIdx : CaseInvoke(r, p, i)
    \/ \E r \in AllRounds, p \in Prompts, i \in AllCaseIdx : CaseResume(r, p, i)
    \/ \E r \in AllRounds, p \in Prompts, i \in AllCaseIdx : CaseComplete(r, p, i)
    \/ \E r \in AllRounds, p \in Prompts, i \in AllCaseIdx : CaseReturn(r, p, i)
    \/ \E r \in AllRounds, p \in Prompts, i \in AllCaseIdx : CaseReturnError(r, p, i)

Spec == Init /\ [][Next]_vars

\* the runs in which the user may press Ctrl+C
InitInterrupt ==
    /\ Init
    /\ test_rounds * CasesPerRound <= MaxInterruptWorkItems

NextInterrupt ==
    \/ Next
    \/ KeyboardInterruptHandler
    \/ CancelRun

SpecInterrupt == InitInterrupt /\ [][NextInterrupt]_vars

\* the runs whose termination is followed: the event loop runs every ready task
\* (asyncio keeps the ready callbacks in a FIFO queue and runs them all in each
\* iteration), and a provider call comes back with an answer or with an error,
\* so a step that can be taken is not put off for ever
MaxLiveWorkItems == 3

InitLive ==
    /\ Init
    /\ test_rounds * CasesPerRound <= MaxLiveWorkItems

SpecLive == InitLive /\ [][Next]_vars /\ WF_vars(Next)

\* ---------------------------------------------------------------- the console
\* the largest number of WorkItems of a run whose console is followed
MaxConsoleWorkItems == 1
\* the last reading of the clock
MaxClock == 4
\* what time.time() may return next, tester.py:594
Readings == clock..MaxClock

\* the program point of a task
PcOf(t) ==
    CASE t[1] = "round" -> roundPc[t[2]]
      [] t[1] = "prompt" -> promptPc[<<t[2], t[3]>>]
      [] t[1] = "case" -> casePc[<<t[2], t[3], t[4]>>]
      [] OTHER -> mainPc

\* the calls of _update_console_output: tester.py:347 and 361 (run_all_tests),
\* 202 (run_test), 231, 237, 247, 277 and 293 (run_single_case)
RenderPcs == {"r347", "r361", "r202", "r231", "r237", "r247", "r277", "r293"}
\* those of them inside the try block of run_single_case, tester.py:233-279
TryPcs == {"r237", "r247", "r277"}

\* the running task stands at a call of _update_console_output not yet made
RenderDue ==
    /\ running # None
    /\ PcOf(running) \in RenderPcs
    /\ rendered_at # <<running, PcOf(running)>>
RenderReturned == ~RenderDue

\* current_time - self._last_console_update < self._console_update_interval,
\* tester.py:595
Throttled_FromStart(current_time) == current_time < ConsoleUpdateInterval
Throttled(current_time) ==
    current_time - last_console_update < ConsoleUpdateInterval

\* tester.py:606-679: the frame is composed by reading the progress dicts, the
\* entries of self._case_progress among them; nothing is assigned to them
CasesAfterFrame_DropsFinished ==
    [k \in {j \in DOMAIN case_progress :
              case_progress[j] \notin {StatusList[6], StatusError}}
       |-> case_progress[k]]
CasesAfterFrame == case_progress

\* tester.py:587-682, a call that returns: it is skipped when throttled, otherwise
\* the time of the repaint is kept and the frame is written
UpdateConsoleOutput(current_time) ==
    /\ RenderDue
    /\ clock' = current_time
    /\ rendered_at' = <<running, PcOf(running)>>
    /\ last_console_update' =
         IF Throttled(current_time) THEN last_console_update ELSE current_time
    /\ case_progress' = CasesAfterFrame
    /\ UNCHANGED <<inputs, resolution, returned, loaded, total_cases, completed_cases, round_progress,
                   prompt_progress, console_lock, gates, running, pcs, values>>

\* tester.py:600-682, a call that raises: sys.stdout.write or print fails on a
\* console that is gone, after the time of the repaint was kept.  Inside the try
\* block of run_single_case the exception is caught at tester.py:281; anywhere
\* else it leaves the task, whose `async with` blocks give back what they hold
\* (tester.py:201, 318, 353, 457)
UpdateConsoleOutputRaises(current_time) ==
    /\ RenderDue
    /\ ~Throttled(current_time)
    /\ clock' = current_time
    /\ rendered_at' = <<running, PcOf(running)>>
    /\ last_console_update' = current_time
    /\ \/ /\ running[1] = "case" /\ PcOf(running) \in TryPcs
          /\ casePc' = [casePc EXCEPT ![<<running[2], running[3], running[4]>>] = "e281"]
          /\ UNCHANGED <<running, console_lock, gates, roundPc, promptPc>>
       \/ /\ running[1] = "case" /\ PcOf(running) \notin TryPcs
          /\ casePc' = [casePc EXCEPT ![<<running[2], running[3], running[4]>>] = "raised"]
          /\ ExitCaseSemaphore(running[2], running[3], running[4])
          /\ running' = None
          /\ UNCHANGED <<console_lock, round_semaphore, prompt_semaphore, roundPc,
                         promptPc>>
       \/ /\ running[1] = "prompt"
          /\ promptPc' = [promptPc EXCEPT ![<<running[2], running[3]>>] = "raised"]
          /\ prompt_semaphore' = [prompt_semaphore EXCEPT ![running[2]] = @ + 1]
          /\ console_lock' = None
          /\ running' = None
          /\ UNCHANGED <<round_semaphore, semaphore, roundPc, casePc>>
       \/ /\ running[1] = "round"
          /\ roundPc' = [roundPc EXCEPT ![running[2]] = "raised"]
          /\ round_semaphore' = round_semaphore + 1
          /\ running' = None
          /\ UNCHANGED <<console_lock, prompt_semaphore, semaphore, promptPc, casePc>>
    /\ UNCHANGED <<inputs, resolution, returned, loaded, progress, mainPc, values>>

\* tester.py:281-291: the except clause of run_single_case after a render of the
\* try block has raised: the completion update with the error status
CaseExcept(r, p, i) ==
    /\ casePc[<<r, p, i>>] = "e281" /\ running = CaseTask(r, p, i)
    /\ console_lock = None
    /\ CompleteCase(r, p, i, StatusError)
    /\ casePc' = [casePc EXCEPT ![<<r, p, i>>] = "r293"]
    /\ UNCHANGED <<inputs, resolution, returned, loaded, console, total_cases, round_progress, console_lock,
                   gates, running, mainPc, roundPc, promptPc, values>>

\* tester.py:464 and 581-585: the exception of a task reaches the gather of run(),
\* which logs it and raises it again
RunFails ==
    /\ mainPc = "gather" /\ running = None
    /\ \/ \E r \in AllRounds : roundPc[r] = "raised"
       \/ \E k \in DOMAIN promptPc : promptPc[k] = "raised"
       \/ \E k \in DOMAIN casePc : casePc[k] = "raised"
    /\ mainPc' = "failed"
    /\ running' = MainTask
    /\ UNCHANGED <<inputs, resolution, returned, loaded, console, progress, console_lock, gates, roundPc,
                   promptPc, casePc, values>>

\* the runs whose console is followed call by call
InitConsole ==
    /\ Init
    /\ test_rounds * CasesPerRound <= MaxConsoleWorkItems

\* a task goes on once its call of _update_console_output has returned
NextConsole ==
    \/ RenderReturned /\ RunStart
    \/ RenderReturned /\ RunCollect
    \/ RenderReturned /\ SaveResults
    \/ \E r \in AllRounds : RenderReturned /\ RoundAdmit(r)
    \/ \E r \in AllRounds : RenderReturned /\ RoundSpawn(r)
    \/ \E r \in AllRounds : RenderReturned /\ RoundCollect(r)
    \/ \E r \in AllRounds, p \in Prompts : RenderReturned /\ PromptAdmit(r, p)
    \/ \E r \in AllRounds, p \in Prompts : RenderReturned /\ PromptSpawn(r, p)
    \/ \E r \in AllRounds, p \in Prompts : RenderReturned /\ PromptCollect(r, p)
    \/ \E r \in AllRounds, p \in Prompts : RenderReturned /\ PromptReturn(r, p)
    \/ \E r \in AllRounds, p \in Prompts, i \in AllCaseIdx :
         RenderReturned /\ CaseAdmit(r, p, i)
    \/ \E r \in AllRounds, p \in Prompts, i \in AllCaseIdx :
         RenderReturned /\ CaseCalling(r, p, i)
    \/ \E r \in AllRounds, p \in Prompts, i \in AllCaseIdx :
         RenderReturned /\ CaseInvoke(r, p, i)
    \/ \E r \in AllRounds, p \in Prompts, i \in AllCaseIdx :
         RenderReturned /\ CaseResume(r, p, i)
    \/ \E r \in AllRounds, p \in Prompts, i \in AllCaseIdx :
         RenderReturned /\ CaseComplete(r, p, i)
    \/ \E r \in AllRounds, p \in Prompts, i \in AllCaseIdx :
         RenderReturned /\ CaseReturn(r, p, i)
    \/ \E r \in AllRounds, p \in Prompts, i \in AllCaseIdx :
         RenderReturned /\ CaseReturnError(r, p, i)
    \/ \E r \in AllRounds, p \in Prompts, i \in AllCaseIdx : CaseExcept(r, p, i)
    \/ \E current_time \in Readings : UpdateConsoleOutput(current_time)
    \/ \E current_time \in Readings : UpdateConsoleOutputRaises(current_time)
    \/ RunFails

SpecConsole == InitConsole /\ [][NextConsole]_vars


\* ---------------------------------------------------------------- the setup phase of run()
\* the largest number of WorkItems of a run followed from its setup phase
MaxSetupWorkItems == 2

\* the values the configuration file may hold for a concurrency setting
ConfigValues == -1..1

\* what the user may type at a prompt for a number: nothing, something that is
\* not a number, or a number
Typed ==
    {[kind |-> "blank", value |-> 0], [kind |-> "invalid", value |-> 0]} \cup
    {[kind |-> "int", value |-> n] : n \in (-1)..MaxRounds}

Max(a, b) == IF a >= b THEN a ELSE b
Min(a, b) == IF a <= b THEN a ELSE b

\* load_prompts, utils.py:67-75: the names of the file, or [] when the file
\* cannot be read or parsed
LoadPrompts(readable) == IF readable THEN Prompts ELSE {}

\* select_tests, tester.py:160-172: at least one of the names and "all" is picked
Options == prompts \cup {"all"}
SelectedOf(picked) == IF "all" \in picked THEN prompts ELSE picked

\* test_rounds of tester.py:417-425 and max_round_concurrency of tester.py:427-434
TestRoundsOf(rounds_input) ==
    IF rounds_input.kind = "int" THEN Max(1, rounds_input.value) ELSE 1
RoundConcurrencyOf(rounds, concurrency_input) ==
    CASE concurrency_input.kind = "int" -> Max(1, Min(rounds, concurrency_input.value))
      [] concurrency_input.kind = "invalid" -> 1
      [] OTHER -> max_round_concurrency

\* the state after construction, tester.py:22-55; the case files and the vendors
\* of the prompts are what they are
InitSetup ==
    /\ test_rounds = 1
    /\ max_round_concurrency = 1
    /\ max_prompt_concurrency = 5
    /\ max_case_concurrency = 3
    /\ selected_prompts = {}
    /\ prompts = {}
    /\ logged = {}
    /\ cases_map \in [Prompts -> 0..MaxCases]
    /\ cases_map["B"] <= cases_map["A"]
    /\ SumOver(cases_map, Prompts) <= MaxSetupWorkItems
    /\ route \in [Prompts -> Vendors]
    /\ \A p \in Prompts : cases_map[p] = 0 => route[p] = "openai"
    /\ total_cases = 0
    /\ completed_cases = 0
    /\ round_progress = EmptyMap
    /\ prompt_progress = EmptyMap
    /\ case_progress = EmptyMap
    /\ console_lock = None
    /\ round_semaphore = 0
    /\ prompt_semaphore = EmptyMap
    /\ semaphore = EmptyMap
    /\ running = None
    /\ mainPc = "start"
    /\ roundPc = [r \in AllRounds |-> "absent"]
    /\ promptPc = [k \in AllRounds \X Prompts |-> "absent"]
    /\ casePc = [k \in AllRounds \X Prompts \X AllCaseIdx |-> "absent"]
    /\ call_return = EmptyMap
    /\ case_result = EmptyMap
    /\ prompt_results = EmptyMap
    /\ all_results = EmptyMap
    /\ all_rounds_results = EmptyMap
    /\ report = "none"
    /\ render_calls = <<>>
    /\ returned = EmptyMap
    \* no call of process_prompt is followed
    /\ prompt_config = None
    /\ case = None
    /\ resolved = None
    /\ clock = ConsoleUpdateInterval
    /\ last_console_update = 0
    /\ rendered_at = None

\* setup, tester.py:122-145: with both keys in the environment the configuration
\* file is not read; otherwise _load_api_keys_from_config (tester.py:87-102) takes
\* the two concurrency settings from it as they are
Setup ==
    /\ mainPc = "start"
    /\ \/ UNCHANGED <<max_prompt_concurrency, max_case_concurrency>>
       \/ /\ max_prompt_concurrency' \in ConfigValues
          /\ max_case_concurrency' \in ConfigValues
    /\ mainPc' = "ready"
    /\ UNCHANGED <<test_rounds, selected_prompts, cases_map, route,
                   max_round_concurrency, loaded, progress, console_lock, gates,
                   running, roundPc, promptPc, casePc, values,
                   returned, resolution, console>>

\* setup raises (the output directory cannot be made, tester.py:145): run() logs
\* the exception and raises it again, tester.py:581-585
SetupRaises ==
    /\ mainPc = "start"
    /\ mainPc' = "failed"
    /\ logged' = logged \cup {"run"}
    /\ UNCHANGED <<inputs, resolution, returned, prompts, progress, console_lock, gates, running,
                   roundPc, promptPc, casePc, values, console>>

\* load_configs, tester.py:147-158 with utils.py:67-75: load_prompts reports a
\* failure with log_error and returns [], so nothing is raised
LoadConfigs ==
    /\ mainPc = "ready"
    /\ \E readable \in BOOLEAN :
          /\ prompts' = LoadPrompts(readable)
          /\ logged' = IF readable THEN logged ELSE logged \cup {"load_prompts"}
    /\ mainPc' = "loaded"
    /\ UNCHANGED <<inputs, resolution, returned, progress, console_lock, gates, running, roundPc,
                   promptPc, casePc, values, console>>

\* select_tests, tester.py:415
SelectTests ==
    /\ mainPc = "loaded"
    /\ \E picked \in (SUBSET Options) \ {{}} :
          selected_prompts' = SelectedOf(picked)
    /\ mainPc' = "selected"
    /\ UNCHANGED <<test_rounds, cases_map, route, max_round_concurrency,
                   max_prompt_concurrency, max_case_concurrency, loaded, progress,
                   console_lock, gates, running, roundPc, promptPc, casePc,
                   values,
                   returned, resolution, console>>

\* the two questions of tester.py:417-434
AskRounds ==
    /\ mainPc = "selected"
    /\ \E rounds_input \in Typed, concurrency_input \in Typed :
          /\ test_rounds' = TestRoundsOf(rounds_input)
          /\ max_round_concurrency' =
                RoundConcurrencyOf(TestRoundsOf(rounds_input), concurrency_input)
          /\ TestRoundsOf(rounds_input) * CasesPerRound <= MaxSetupWorkItems
    /\ mainPc' = "idle"
    /\ UNCHANGED <<selected_prompts, cases_map, route, max_prompt_concurrency,
                   max_case_concurrency, loaded, progress, console_lock, gates,
                   running, roundPc, promptPc, casePc, values,
                   returned, resolution, console>>

\* asyncio.Semaphore(self.max_prompt_concurrency) raises ValueError for a negative
\* value, tester.py:350; the exception leaves run_all_tests and the round gives
\* back its slot of the round semaphore (tester.py:457)
RoundSpawnRaises(r) ==
    /\ roundPc[r] = "r347" /\ running = RoundTask(r)
    /\ NewPromptSemaphore < 0
    /\ roundPc' = [roundPc EXCEPT ![r] = "raised"]
    /\ round_semaphore' = round_semaphore + 1
    /\ running' = None
    /\ UNCHANGED <<inputs, resolution, returned, loaded, console, progress, console_lock,
                   prompt_semaphore, semaphore, mainPc, promptPc, casePc, values>>

\* asyncio.Semaphore(self.max_case_concurrency) raises ValueError for a negative
\* value, tester.py:315; the exception leaves run_test and the prompt gives back
\* its slot of the prompt semaphore (tester.py:353)
PromptSpawnRaises(r, p) ==
    /\ promptPc[<<r, p>>] = "r202" /\ running = PromptTask(r, p)
    /\ NewCaseSemaphore < 0
    /\ console_lock' = None
    /\ promptPc' = [promptPc EXCEPT ![<<r, p>>] = "raised"]
    /\ prompt_semaphore' = [prompt_semaphore EXCEPT ![r] = @ + 1]
    /\ running' = None
    /\ UNCHANGED <<inputs, resolution, returned, loaded, console, progress, round_semaphore, semaphore,
                   mainPc, roundPc, casePc, values>>

NextSetup ==
    \/ Setup
    \/ SetupRaises
    \/ LoadConfigs
    \/ SelectTests
    \/ AskRounds
    \/ Next
    \/ \E r \in AllRounds : RoundSpawnRaises(r)
    \/ \E r \in AllRounds, p \in Prompts : PromptSpawnRaises(r, p)
    \/ RunFails

SpecSetup == InitSetup /\ [][NextSetup]_vars

\* ---------------------------------------------------------------- process_prompt
\* A text is a sequence of pieces: a piece is the placeholder {{name}} of a
\* parameter name, or a stretch of other text.
MaxPromptLen == 2
ParamNames == {"a", "language"}
Pieces == ParamNames \cup {"X"}
Texts == UNION {[1..n -> Pieces] : n \in 0..MaxPromptLen}

\* the values a case file can hold under a key: a string or a number
Absent == [kind |-> "absent", text |-> <<>>, n |-> 0]
StrValues == {[kind |-> "str", text |-> t, n |-> 0] : t \in {<<"X">>, <<"language">>}}
IntValues == {[kind |-> "int", text |-> <<>>, n |-> 5]}
JsonValues == StrValues \cup IntValues

\* str(value), utils.py:39
Str(value) == IF value.kind = "str" THEN value.text ELSE <<ToString(value.n)>>

\* the "args" entry of a case: missing, not a dict, or a dict
ArgsEntries ==
    {[kind |-> "absent", dict |-> EmptyMap], [kind |-> "other", dict |-> EmptyMap]}
    \cup {[kind |-> "dict", dict |-> d] :
             d \in UNION {[S -> JsonValues] : S \in SUBSET ParamNames}}

\* re.findall(r'{{(\w+)}}', prompt), utils.py:22: the names in order of occurrence
FindAll(prompt) == SelectSeq(prompt, LAMBDA piece : piece \in ParamNames)

\* prompt.replace(placeholder, text), utils.py:39 and 57: every occurrence, in
\* one pass over the prompt
RECURSIVE Replace(_, _, _)
Replace(prompt, param, text) ==
    IF prompt = <<>> THEN <<>>
    ELSE (IF Head(prompt) = param THEN text ELSE <<Head(prompt)>>)
         \o Replace(Tail(prompt), param, text)

\* the loop of utils.py:36-43 over the names found in the template
RECURSIVE ReplaceParams(_, _, _)
ReplaceParams(prompt, params, args) ==
    IF params = <<>> THEN prompt
    ELSE ReplaceParams(IF Head(params) \in DOMAIN args
                       THEN Replace(prompt, Head(params), Str(args[Head(params)]))
                       ELSE prompt,
                       Tail(params), args)

Returns(prompt) == [raised |-> FALSE, prompt |-> prompt]
\* str.replace with an argument that is not a str
TypeError == [raised |-> TRUE, prompt |-> <<>>]

\* process_prompt, utils.py:17-65
process_prompt(config, c) ==
    LET prompt == config.prompt
        params == FindAll(prompt)
    IN IF params = <<>> THEN Returns(prompt)
       ELSE IF c.args.kind = "dict"
            THEN Returns(ReplaceParams(prompt, params, c.args.dict))
       ELSE IF config.name = "translate" /\ c.targetLanguage.kind # "absent"
            THEN IF \E j \in DOMAIN params : params[j] = "language"
                 THEN IF c.targetLanguage.kind = "str"
                      THEN Returns(Replace(prompt, "language", c.targetLanguage.text))
                      ELSE TypeError
                 ELSE Returns(prompt)
       ELSE Returns(prompt)

\* a prompt configuration and a case are given; the engine is not started
InitResolve ==
    /\ prompt_config \in [name : {"translate", "other"}, prompt : Texts]
    /\ case \in [args : ArgsEntries, targetLanguage : JsonValues \cup {Absent}]
    /\ resolved = None
    /\ test_rounds = 1
    /\ max_round_concurrency = 1
    /\ max_prompt_concurrency = 1
    /\ max_case_concurrency = 1
    /\ selected_prompts = {"A"}
    /\ cases_map = [p \in Prompts |-> IF p = "A" THEN 1 ELSE 0]
    /\ route = [p \in Prompts |-> "openai"]
    /\ total_cases = 0
    /\ completed_cases = 0
    /\ round_progress = EmptyMap
    /\ prompt_progress = EmptyMap
    /\ case_progress = EmptyMap
    /\ console_lock = None
    /\ round_semaphore = 0
    /\ prompt_semaphore = EmptyMap
    /\ semaphore = EmptyMap
    /\ running = None
    /\ mainPc = "idle"
    /\ roundPc = [r \in AllRounds |-> "absent"]
    /\ promptPc = [k \in AllRounds \X Prompts |-> "absent"]
    /\ casePc = [k \in AllRounds \X Prompts \X AllCaseIdx |-> "absent"]
    /\ call_return = EmptyMap
    /\ case_result = EmptyMap
    /\ prompt_results = EmptyMap
    /\ all_results = EmptyMap
    /\ all_rounds_results = EmptyMap
    /\ report = "none"
    /\ render_calls = <<>>
    /\ returned = EmptyMap
    /\ prompts = Prompts
    /\ logged = {}
    /\ clock = ConsoleUpdateInterval
    /\ last_console_update = 0
    /\ rendered_at = None

\* processed_prompt = process_prompt(prompt_config, case), api_clients.py:37 and 97
ProcessPrompt ==
    /\ resolved = None
    /\ resolved' = <<process_prompt(prompt_config, case)>>
    /\ UNCHANGED <<prompt_config, case, inputs, loaded, progress, console_lock, gates,
                   running, pcs, values, returned, console>>

NextResolve == ProcessPrompt

SpecResolve == InitResolve /\ [][NextResolve]_vars

\* ---------------------------------------------------------------- observers
\* a case holds a slot of its case semaphore from its admission to its return
CaseHolding(k) ==
    casePc[k] \in {"r231", "r237", "await", "r247", "r277", "e281", "r293"}
\* a prompt holds a slot of its round's prompt semaphore from its admission to
\* its return
PromptHolding(k) == promptPc[k] \in {"r202", "gather", "r361"}

HeldCaseSlotsOf(r, p) ==
    Cardinality({i \in AllCaseIdx : CaseHolding(<<r, p, i>>)})
HeldCaseSlots ==
    Cardinality({k \in AllRounds \X Prompts \X AllCaseIdx : CaseHolding(k)})
HeldPromptSlotsOf(r) ==
    Cardinality({p \in Prompts : PromptHolding(<<r, p>>)})
HeldPromptSlots ==
    Cardinality({k \in AllRounds \X Prompts : PromptHolding(k)})
\* a round holds a slot of the round semaphore from its admission to its return
RoundHolding(r) == roundPc[r] \in {"r347", "gather"}
HeldRoundSlots == Cardinality({r \in AllRounds : RoundHolding(r)})

\* ---------------------------------------------------------------- claims
\* C1 as stated: the cases holding a case-gate slot, counted over all prompts and
\* all rounds together, never exceed the configured case concurrency.
C1_PoolWideCaseCeiling == HeldCaseSlots <= max_case_concurrency

\* C1 as amended: within each run_test call (one prompt of one round) the cases
\* holding a slot of that call's case semaphore never exceed the configured case
\* concurrency.
C1_PerPromptCaseCeiling ==
    \A r \in AllRounds, p \in Prompts :
        HeldCaseSlotsOf(r, p) <= max_case_concurrency

\* the case gate of a prompt is full while another case of the prompt waits
C1_Witness ==
    \E r \in AllRounds, p \in Prompts :
        /\ HeldCaseSlotsOf(r, p) = max_case_concurrency
        /\ \E i \in AllCaseIdx : casePc[<<r, p, i>>] = "queued"

\* C10 as stated: the prompts executing, counted over all concurrently running
\* rounds together, never exceed the configured prompt concurrency.
C10_SharedPromptCeiling == HeldPromptSlots <= max_prompt_concurrency

\* C10 as amended: within each round the prompts executing never exceed the
\* configured prompt concurrency (every round has a prompt gate of its own).
C10_PerRoundPromptCeiling ==
    \A r \in AllRounds : HeldPromptSlotsOf(r) <= max_prompt_concurrency

\* the prompt gate of a round is full while another prompt of the round waits
C10_Witness ==
    \E r \in AllRounds :
        /\ HeldPromptSlotsOf(r) = max_prompt_concurrency
        /\ \E p \in Prompts : promptPc[<<r, p>>] = "queued"

\* ---------------------------------------------------------------- more observers
\* the WorkItems of the run: rounds x selected prompts x cases of the prompt
WorkItems ==
    {k \in AllRounds \X Prompts \X AllCaseIdx :
        k[1] \in Rounds /\ k[2] \in selected_prompts /\ k[3] \in CaseIdx(k[2])}

\* the RunResult exists from the moment run() has put the rounds together
Assembled == mainPc \in {"saving", "completed", "fatal"}

ResultsOf(r, p) ==
    IF r \in DOMAIN all_rounds_results /\ p \in DOMAIN all_rounds_results[r]
    THEN all_rounds_results[r][p]
    ELSE <<>>

\* the results of the RunResult that belong to WorkItem k
CountOf(k) ==
    Cardinality({j \in DOMAIN ResultsOf(k[1], k[2]) :
                    /\ ResultsOf(k[1], k[2])[j].prompt_name = k[2]
                    /\ ResultsOf(k[1], k[2])[j].case_id = k[3]})

ResultPairs ==
    {k \in AllRounds \X Prompts :
        k[1] \in DOMAIN all_rounds_results /\ k[2] \in DOMAIN all_rounds_results[k[1]]}
TotalResults ==
    SumOver([k \in ResultPairs |-> Len(all_rounds_results[k[1]][k[2]])], ResultPairs)

\* the model invocation of WorkItem k has failed: call_api raised, or the provider
\* method handed back its error tuple
InvocationFailed(k) ==
    \/ k \in DOMAIN case_progress /\ case_progress[k] = StatusError
    \/ k \in DOMAIN call_return /\ "error" \in call_return[k].tokens

TerminalStatus(st) == st \in {StatusList[6], StatusError}
TerminalCases == {k \in DOMAIN case_progress : TerminalStatus(case_progress[k])}

PromptNodesOf(r) == {k \in DOMAIN prompt_progress : k[1] = r}
SumPromptCompletedOf(r) ==
    SumOver([k \in PromptNodesOf(r) |-> prompt_progress[k].completed], PromptNodesOf(r))
SumPromptCompleted ==
    SumOver([k \in DOMAIN prompt_progress |-> prompt_progress[k].completed],
            DOMAIN prompt_progress)
SumRoundCompleted ==
    SumOver([r \in DOMAIN round_progress |-> round_progress[r].completed],
            DOMAIN round_progress)

\* some task stands at a call of _update_console_output
AtRender ==
    \/ \E r \in AllRounds : roundPc[r] = "r347"
    \/ \E k \in AllRounds \X Prompts : promptPc[k] \in {"r202", "r361"}
    \/ \E k \in AllRounds \X Prompts \X AllCaseIdx :
          casePc[k] \in {"r231", "r237", "r247", "r277", "r293"}

\* ---------------------------------------------------------------- claims, continued
\* C2: when the run has put its RunResult together, every WorkItem (round,
\* prompt, case index) has exactly one CaseResult in it, never none and never two.
C2_ExactlyOneResultPerWorkItem ==
    Assembled => \A k \in WorkItems : CountOf(k) = 1

\* a finished run that had a failing and a succeeding WorkItem
C2_Witness ==
    /\ Assembled
    /\ \E k1, k2 \in WorkItems :
          /\ "error" \in case_result[k1].tokens
          /\ "error" \notin case_result[k2].tokens

\* C3: the RunResult has one entry per round 1..N, each round one entry per
\* selected prompt that has cases, each entry as many results as the prompt has
\* cases, and rounds x (sum of cases) results in all.
C3_RunResultShape ==
    Assembled =>
        /\ DOMAIN all_rounds_results = Rounds
        /\ \A r \in Rounds :
              /\ DOMAIN all_rounds_results[r] =
                    {p \in selected_prompts : cases_map[p] > 0}
              /\ \A p \in DOMAIN all_rounds_results[r] :
                    Len(all_rounds_results[r][p]) = cases_map[p]
        /\ TotalResults = test_rounds * CasesPerRound

\* two rounds of two prompts with cases have been put together
C3_Witness ==
    /\ Assembled
    /\ test_rounds = 2
    /\ selected_prompts = Prompts
    /\ \A p \in Prompts : cases_map[p] > 0
    /\ TotalResults = 4

\* C4: whatever invocations fail, a run that has left its gather ends completed,
\* with the final report written, and not in the fatal state.
C4_RunCompletesWithReport ==
    mainPc \notin {"idle", "gather", "saving"} =>
        mainPc = "completed" /\ report = "test_results"

\* C5: once the invocation of a WorkItem has failed, the run is never stuck
\* before its report step, and the RunResult holds exactly one result of every
\* other WorkItem, each of which reached a terminal status.
C5_FailureIsIsolated ==
    /\ \A k \in WorkItems :
          InvocationFailed(k) /\ Assembled =>
              \A k2 \in WorkItems \ {k} :
                  CountOf(k2) = 1 /\ k2 \in TerminalCases
    /\ (\E k \in WorkItems : InvocationFailed(k))
          /\ mainPc \in {"idle", "gather", "saving"} => ENABLED Next

\* a failed WorkItem and a successful one of the same prompt and round, both in
\* the RunResult
C5_Witness ==
    /\ Assembled
    /\ \E k1, k2 \in WorkItems :
          /\ k1[1] = k2[1] /\ k1[2] = k2[2]
          /\ InvocationFailed(k1) /\ ~InvocationFailed(k2)
          /\ CountOf(k1) = 1 /\ CountOf(k2) = 1

\* C6: at the global node, at every round node and at every prompt node,
\* completed <= total.
C6_CompletedWithinTotal ==
    /\ completed_cases <= total_cases
    /\ \A r \in DOMAIN round_progress :
          round_progress[r].completed <= round_progress[r].total
    /\ \A k \in DOMAIN prompt_progress :
          prompt_progress[k].completed <= prompt_progress[k].total

\* C7: no step lowers the completed counter of the global node, of a round node
\* or of a prompt node, and no step removes or re-initialises an existing node.
C7_CompletedNeverDecreases ==
    [][/\ completed_cases' >= completed_cases
       /\ \A r \in DOMAIN round_progress :
             /\ r \in DOMAIN round_progress'
             /\ round_progress'[r].completed >= round_progress[r].completed
       /\ \A k \in DOMAIN prompt_progress :
             /\ k \in DOMAIN prompt_progress'
             /\ prompt_progress'[k].completed >= prompt_progress[k].completed]_vars

\* a round node has advanced twice: two of its prompts have handed in results
C7_Witness ==
    \E r \in DOMAIN round_progress :
        /\ round_progress[r].completed >= 2
        /\ Cardinality({p \in Prompts : promptPc[<<r, p>>] \in {"r361", "done"}
                                        /\ cases_map[p] > 0}) = 2
        /\ completed_cases >= 2

\* C8: whenever the event loop is between tasks, the number of cases with a
\* terminal status, the sum of the prompt nodes' completed counters and the
\* global completed counter are equal.
C8_LeafSumEqualsGlobal ==
    running = None =>
        /\ Cardinality(TerminalCases) = SumPromptCompleted
        /\ SumPromptCompleted = completed_cases

\* C9 as stated: at every render, each round node's completed equals the sum of
\* the completed counters of the round's prompt nodes, and the round nodes sum
\* up to the global completed counter.
C9_NoDriftBetweenLevels ==
    AtRender =>
        /\ \A r \in DOMAIN round_progress :
              round_progress[r].completed = SumPromptCompletedOf(r)
        /\ SumRoundCompleted = completed_cases

\* the prompt nodes of round r whose run_test has returned its results
ReturnedPromptNodesOf(r) ==
    {k \in PromptNodesOf(r) : k \in DOMAIN prompt_results}

\* C9 as amended: at every render, each round node's completed equals the number
\* of results returned so far by run_test for the prompts of the round; so it
\* never exceeds the sum of the completed counters of the round's prompt nodes,
\* and the round nodes together never exceed the global counter.
C9_RoundLagsBehindPrompts ==
    AtRender =>
        /\ \A r \in DOMAIN round_progress :
              /\ round_progress[r].completed =
                    SumOver([k \in ReturnedPromptNodesOf(r) |->
                                Len(prompt_results[k])],
                            ReturnedPromptNodesOf(r))
              /\ round_progress[r].completed <= SumPromptCompletedOf(r)
        /\ SumRoundCompleted <= completed_cases

\* a render at which a round node has advanced and still lags behind its prompts
C9_Witness ==
    /\ AtRender
    /\ \E r \in DOMAIN round_progress :
          /\ round_progress[r].completed > 0
          /\ round_progress[r].completed < SumPromptCompletedOf(r)

\* C11: the rounds executing (holding a slot of the round gate) never exceed the
\* configured round concurrency.
C11_RoundCeiling == HeldRoundSlots <= max_round_concurrency

\* the round gate is full while another round of the run waits for a slot
C11_Witness ==
    /\ HeldRoundSlots = max_round_concurrency
    /\ \E r \in Rounds : roundPc[r] = "queued"

\* C12: every slot taken at a gate is given back when its unit ends, on success
\* and on failure alike: at each gate free slots + held slots = capacity in every
\* state, and once the run has gathered all rounds no slot is held at any of the
\* three gates.
C12_SlotsAreReleased ==
    /\ mainPc # "idle" => round_semaphore + HeldRoundSlots = max_round_concurrency
    /\ \A r \in DOMAIN prompt_semaphore :
          prompt_semaphore[r] + HeldPromptSlotsOf(r) = max_prompt_concurrency
    /\ \A k \in DOMAIN semaphore :
          semaphore[k] + HeldCaseSlotsOf(k[1], k[2]) = max_case_concurrency
    /\ Assembled =>
          /\ HeldRoundSlots = 0 /\ HeldPromptSlots = 0 /\ HeldCaseSlots = 0
          /\ round_semaphore = max_round_concurrency
          /\ \A r \in DOMAIN prompt_semaphore :
                prompt_semaphore[r] = max_prompt_concurrency
          /\ \A k \in DOMAIN semaphore : semaphore[k] = max_case_concurrency

\* a finished run in which a case left its guarded region through the except
\* path and another through the normal return
C12_Witness ==
    /\ Assembled
    /\ DOMAIN semaphore # {}
    /\ \E k1, k2 \in WorkItems :
          /\ case_progress[k1] = StatusError
          /\ case_progress[k2] = StatusList[6]

\* ---------------------------------------------------------------- ordering claims
\* the results that have been returned upward for prompt kp of a round
ReturnedResultsOf(kp) == {k \in DOMAIN case_result : <<k[1], k[2]>> = kp}

\* C18: whenever the result of a case exists (returned by run_single_case, and
\* from there in the prompt's list and in the RunResult), the completion update
\* of that case is already in the progress state: its status is terminal and
\* the prompt counter and the global counter have counted it.
C18_ResultAfterCompletionUpdate ==
    /\ \A k \in DOMAIN case_result : k \in TerminalCases
    /\ \A kp \in DOMAIN prompt_progress :
          Cardinality(ReturnedResultsOf(kp)) <= prompt_progress[kp].completed
    /\ Cardinality(DOMAIN case_result) <= completed_cases
    /\ \A kp \in DOMAIN prompt_results :
          \A j \in DOMAIN prompt_results[kp] :
              CaseKey(kp[1], kp[2], prompt_results[kp][j].case_id) \in TerminalCases

\* the completion update of one case is visible while its result is not yet
\* returned, and the result of another case is
C18_Witness ==
    \E k1, k2 \in WorkItems :
        /\ casePc[k1] \in {"r277", "r293"} /\ k1 \in TerminalCases
        /\ k1 \notin DOMAIN case_result
        /\ k2 \in DOMAIN case_result

\* C19: the dict of a round exists only when every WorkItem of the round has a
\* terminal status and has returned, and every prompt of the round has returned;
\* the RunResult exists, and the report writer is called, only when the dict of
\* every round exists.
C19_AssembledAfterTerminal ==
    /\ \A r \in DOMAIN all_results :
          /\ \A k \in WorkItems :
                k[1] = r => k \in TerminalCases /\ casePc[k] = "done"
          /\ RoundTotalCases > 0 =>
                \A p \in selected_prompts : promptPc[<<r, p>>] = "done"
    /\ (Assembled \/ render_calls # <<>>) =>
          \A r \in Rounds : r \in DOMAIN all_results /\ roundPc[r] = "done"

\* one round is assembled while a case of the other round is still in flight
C19_Witness ==
    /\ \E r \in Rounds : r \in DOMAIN all_results /\ all_results[r] # EmptyMap
    /\ \E k \in WorkItems : casePc[k] = "await"
    /\ ~Assembled

\* C20: once run() has its RunResult, that is before the run can be reported as
\* finished, every case whose status is terminal (done or error) has exactly one
\* result in the RunResult, and a case with the error status has an error result.
C20_CompletedCasesHaveResults ==
    Assembled =>
        \A k \in TerminalCases :
            /\ CountOf(k) = 1
            /\ case_progress[k] = StatusError =>
                  \E j \in DOMAIN ResultsOf(k[1], k[2]) :
                      /\ ResultsOf(k[1], k[2])[j].case_id = k[3]
                      /\ "error" \in ResultsOf(k[1], k[2])[j].tokens

\* a run of two rounds reported as finished, every case done and in the RunResult
C20_Witness ==
    /\ mainPc = "completed"
    /\ test_rounds = 2
    /\ Cardinality(TerminalCases) >= 2
    /\ TotalResults = Cardinality(TerminalCases)

\* ---------------------------------------------------------------- interruption claims
InterruptedCalls ==
    {j \in DOMAIN render_calls : render_calls[j].filename_prefix = InterruptedPrefix}

\* C13: when the run is interrupted after k >= 1 cases have completed and the
\* user confirms saving, the value handed to the report writer holds exactly the
\* k results completed so far and the partial report is written from it.
C13_PartialReportOfCompleted ==
    \A j \in InterruptedCalls :
        /\ RenderedCases(render_calls[j].test_results) = completed_cases
        /\ ~render_calls[j].raised
        /\ report = InterruptedPrefix

\* the run has been stopped by an interrupt
Interrupted == mainPc \in {"exited", "cancelled"}

Admitted(k) == casePc[k] \notin {"absent", "queued"}

\* C15: in an interrupted run every case that had been admitted when the
\* interrupt arrived has reached a terminal status and has its result recorded;
\* none is cut off in the middle of its invocation.
C15_InFlightUnitsDrain ==
    Interrupted =>
        \A k \in WorkItems :
            Admitted(k) => k \in TerminalCases /\ k \in DOMAIN case_result

\* the run has ended, one way or another
RunEnded == mainPc \in {"completed", "fatal", "exited", "cancelled"}

\* C16: a run that has ended (taken here among the runs in which at least one
\* case completed) has called the report writer exactly once, for the final
\* report or for a partial one, and never for both.
C16_RenderedExactlyOnce ==
    /\ RunEnded /\ completed_cases >= 1 => Len(render_calls) = 1
    /\ ~ (InterruptedCalls # {} /\ InterruptedCalls # DOMAIN render_calls)

\* C17: the call of the report writer made by the interrupt handler never carries
\* the prefix of complete reports, the call made on normal completion always
\* carries it, and a file with the prefix of complete reports is written on
\* normal completion only.
C17_DistinctMarkers ==
    [][/\ (mainPc' = "exited" /\ render_calls' # render_calls) =>
             /\ render_calls'[Len(render_calls')].filename_prefix # DefaultPrefix
             /\ report' # report => report' # DefaultPrefix
       /\ (mainPc = "saving" /\ mainPc' \in {"completed", "fatal"}) =>
             /\ Len(render_calls') = Len(render_calls) + 1
             /\ render_calls'[Len(render_calls')].filename_prefix = DefaultPrefix
       /\ (report' # report /\ report' = DefaultPrefix) =>
             mainPc = "saving" /\ mainPc' = "completed"]_vars

\* a run that wrote its final report and was interrupted afterwards: the report
\* writer has been called once on each path
C17_Witness ==
    /\ mainPc = "exited"
    /\ Len(render_calls) = 2
    /\ render_calls[1].filename_prefix = DefaultPrefix
    /\ render_calls[2].filename_prefix = InterruptedPrefix
    /\ report = DefaultPrefix

\* ---------------------------------------------------------------- claims C21..C30
\* the calls of _update_console_output reached from a block of
\* `async with self._console_lock`: tester.py:199-202 (the call is inside the
\* block), 221-231, 267-277, 283-293, 344-347, 356-361
WritesUnderLock_NoCompletion == {"r202", "r231", "r293", "r347", "r361"}
WritesUnderLock == {"r202", "r231", "r277", "r293", "r347", "r361"}

\* the step brings its task to one of these calls
StepReaches(S) ==
    \/ \E r \in AllRounds : roundPc'[r] # roundPc[r] /\ roundPc'[r] \in S
    \/ \E k \in DOMAIN promptPc : promptPc'[k] # promptPc[k] /\ promptPc'[k] \in S
    \/ \E k \in DOMAIN casePc : casePc'[k] # casePc[k] /\ casePc'[k] \in S

\* the step makes a node, moves a counter of a node or of the run, or gives a
\* case its terminal status
StepCounts ==
    \/ round_progress' # round_progress
    \/ prompt_progress' # prompt_progress
    \/ DOMAIN case_progress' # DOMAIN case_progress
    \/ mainPc # "idle" /\ <<total_cases, completed_cases>>' # <<total_cases, completed_cases>>
    \/ \E k \in DOMAIN case_progress :
          case_progress'[k] # case_progress[k] /\ TerminalStatus(case_progress'[k])

\* C21 (as stated): every step of a task that changes the progress state (case
\* status, counters, nodes) is made inside the critical section of the lock.
C21_AllMutationsUnderLock ==
    [][(progress' # progress /\ mainPc # "idle") =>
          console_lock = None /\ StepReaches(WritesUnderLock)]_vars

\* C21 (amended): the nodes are made, the counters of the nodes and the global
\* completed counter are moved and the terminal status is set inside the critical
\* section; a step outside it changes nothing but the status of the one running
\* case, to a status that is not terminal (run() itself sets the two global
\* counters, without the lock, before any task exists).
C21_LockCoversCountersAndNodes ==
    [][/\ StepCounts => console_lock = None /\ StepReaches(WritesUnderLock)
       /\ (progress' # progress /\ mainPc # "idle" /\ ~StepReaches(WritesUnderLock)) =>
             /\ running' # None
             /\ running'[1] = "case"
             /\ \A k \in DOMAIN case_progress :
                   case_progress'[k] # case_progress[k] =>
                      /\ k = <<running'[2], running'[3], running'[4]>>
                      /\ ~TerminalStatus(case_progress'[k])
             /\ UNCHANGED <<total_cases, completed_cases, round_progress,
                            prompt_progress>>]_vars

\* a case waits for its answer with the status written outside the critical
\* section while another case of the prompt has been completed inside it
C21_Witness ==
    \E k \in DOMAIN case_progress, j \in DOMAIN case_progress :
       /\ casePc[k] = "await" /\ case_progress[k] = StatusList[3]
       /\ casePc[j] = "done" /\ case_progress[j] = StatusList[6]
       /\ k[1] = j[1] /\ k[2] = j[2]

\* the cases of a prompt node that have their terminal status
TerminalCasesOf(kp) == {k \in TerminalCases : k[1] = kp[1] /\ k[2] = kp[2]}

\* C22: the three writes of a completion update are made in one step, so that no
\* state, and hence no state a call of the renderer reads, has one of them
\* without the others: in every step the cases whose status is written to done or
\* error are exactly the cases by which the global completed counter and the
\* completed counters of their prompt nodes move.
C22_RenderSeesWholeCompletions ==
    [][mainPc # "idle" =>
          LET written == {k \in DOMAIN case_progress' :
                            /\ TerminalStatus(case_progress'[k])
                            /\ \/ k \notin DOMAIN case_progress
                               \/ case_progress[k] # case_progress'[k]}
              moved == {kp \in DOMAIN prompt_progress :
                          prompt_progress'[kp].completed # prompt_progress[kp].completed}
          IN /\ completed_cases' - completed_cases = Cardinality(written)
             /\ moved = {<<k[1], k[2]>> : k \in written}
             /\ \A kp \in moved :
                   prompt_progress'[kp].completed - prompt_progress[kp].completed =
                      Cardinality({k \in written : <<k[1], k[2]>> = kp})]_vars

\* the render that follows a completion update, while another case of the same
\* prompt is still waiting for its answer
C22_Witness ==
    \E k \in DOMAIN casePc, j \in DOMAIN casePc :
       /\ casePc[k] = "r277" /\ running = CaseTask(k[1], k[2], k[3])
       /\ casePc[j] = "await" /\ k[1] = j[1] /\ k[2] = j[2]

\* the order of the statuses of a case as the specification gives it: waiting,
\* start of the call, calling, awaiting the response, processing, done
LifecycleOrder ==
    <<"waiting", "start_call", "calling", "responding", "processing", "done">>
LifecycleRank(st) == CHOOSE n \in 1..Len(LifecycleOrder) : LifecycleOrder[n] = st

\* C23: a step that changes the status of a case moves it forward along waiting,
\* start of the call, calling, awaiting the response, processing, done, or to the
\* error status; an entry is never removed, and a status that is done or error is
\* never changed again.
C23_StatusMovesForward ==
    [][\A k \in DOMAIN case_progress :
          /\ k \in DOMAIN case_progress'
          /\ case_progress'[k] # case_progress[k] =>
                /\ ~TerminalStatus(case_progress[k])
                /\ \/ case_progress'[k] = StatusError
                   \/ /\ case_progress'[k] \in {LifecycleOrder[n] : n \in 1..6}
                      /\ LifecycleRank(case_progress'[k]) >
                            LifecycleRank(case_progress[k])]_vars

\* C30: a step moves the global completed counter and the completed counter of a
\* prompt node by exactly the number of cases (of that prompt) that get their
\* terminal status in the step, so that no case is counted twice, whatever is
\* raised after its completion update.
C30_CompletedExactlyOnce ==
    [][/\ mainPc # "idle" =>
             completed_cases' - completed_cases =
                Cardinality(TerminalCases' \ TerminalCases)
       /\ \A kp \in DOMAIN prompt_progress :
             prompt_progress'[kp].completed - prompt_progress[kp].completed =
                Cardinality(TerminalCasesOf(kp)' \ TerminalCasesOf(kp))]_vars

\* a step in which a call of _update_console_output is made
RenderAttempt == rendered_at' # rendered_at

\* C24: a call of the renderer repaints (and keeps the time read as the time of
\* the last repaint) if at least the interval has passed since the last repaint,
\* and otherwise leaves the time of the last repaint as it is; the time of the
\* last repaint changes in no other step, and when it changes it moves on by at
\* least the interval.
C24_RepaintsAreThrottled ==
    [][/\ RenderAttempt =>
             IF clock' - last_console_update >= ConsoleUpdateInterval
             THEN last_console_update' = clock'
             ELSE last_console_update' = last_console_update
       /\ last_console_update' # last_console_update =>
             /\ RenderAttempt
             /\ last_console_update' - last_console_update >= ConsoleUpdateInterval]_vars

\* the call made before the invocation was skipped: it came less than the
\* interval after the repaint made when the program started
C24_Witness ==
    /\ rendered_at # None
    /\ rendered_at[2] = "r237"
    /\ last_console_update = ConsoleUpdateInterval
    /\ clock = last_console_update + 1

\* C25: a call of the renderer, skipped or performed, returning or raising,
\* leaves the global counters, the round, prompt and case nodes and the results
\* collected so far as they are.
C25_RenderLeavesProgress ==
    [][RenderAttempt =>
          UNCHANGED <<progress, call_return, case_result, prompt_results,
                      all_results, all_rounds_results>>]_vars

\* the call that follows a completion update has repainted
C25_Witness ==
    /\ rendered_at # None
    /\ rendered_at[2] = "r277"
    /\ last_console_update = clock
    /\ \E k \in DOMAIN case_progress : case_progress[k] = StatusList[6]

\* the selected prompts without cases
EmptyPrompts == {p \in selected_prompts : cases_map[p] = 0}

\* C26: a selected prompt without cases gets no case task and hands in no
\* result; it ends its run_test call like any other prompt, the run does not end
\* fatally because of it (only the report writer makes a run fatal, C4), and the
\* RunResult holds, in every round, every other selected prompt with all its
\* results and no entry for the prompt without cases.
C26_EmptyPromptIsSkipped ==
    /\ \A k \in DOMAIN casePc : k[2] \in EmptyPrompts => casePc[k] = "absent"
    /\ \A k \in DOMAIN prompt_results : k[2] \in EmptyPrompts => prompt_results[k] = <<>>
    /\ \A k \in DOMAIN promptPc :
          k[2] \in EmptyPrompts => promptPc[k] \in {"absent", "queued", "r361", "done"}
    /\ mainPc = "fatal" => SaveRaises(all_rounds_results)
    /\ Assembled =>
          \A r \in Rounds :
             /\ \A p \in EmptyPrompts : p \notin DOMAIN all_rounds_results[r]
             /\ \A q \in selected_prompts \ EmptyPrompts :
                   /\ q \in DOMAIN all_rounds_results[r]
                   /\ Len(all_rounds_results[r][q]) = cases_map[q]

\* a run of two rounds has been completed with one prompt that has no cases and
\* one that has
C26_Witness ==
    /\ mainPc = "completed"
    /\ test_rounds = 2
    /\ EmptyPrompts # {}
    /\ selected_prompts \ EmptyPrompts # {}
    /\ \A r \in Rounds : DOMAIN all_rounds_results[r] = selected_prompts \ EmptyPrompts

\* the setup phase has reported a failure
SetupFailed == logged # {}

\* C27: once the setup phase has failed (the prompt configuration could not be
\* loaded, or setup itself raised), run() goes no further than raising the error
\* to its caller: the tests are not selected, no round, prompt or case is started
\* and the report writer is not called.
C27_SetupFailureIsSurfaced ==
    SetupFailed =>
        /\ mainPc \in {"loaded", "failed"}
        /\ \A k \in DOMAIN casePc : casePc[k] = "absent"
        /\ \A r \in AllRounds : roundPc[r] = "absent"
        /\ render_calls = <<>>
        /\ report = "none"

\* C29: from the moment run() starts the rounds, the capacities of the round
\* gate, of the prompt gates and of the case gates are at least 1.
C29_GatesAdmitAtLeastOne ==
    mainPc \in {"gather", "saving", "completed", "fatal"} =>
        /\ NewRoundSemaphore >= 1
        /\ NewPromptSemaphore >= 1
        /\ NewCaseSemaphore >= 1

\* the program points of run_single_case in the order the code passes them; the
\* model invocation service is called in the step that leaves "r237"
CasePcOrder ==
    <<"absent", "queued", "r231", "r237", "await", "r247", "r277", "e281", "r293",
      "raised", "done">>
CasePcRank(pc) == CHOOSE n \in 1..Len(CasePcOrder) : CasePcOrder[n] = pc

\* C28: a case never comes back to the call of the invocation service or to a
\* point before it: once called, it is not queued, admitted or called again,
\* whatever the call gave; and a case whose call was refused ends with the error
\* status and an error result.
C28_InvokedAtMostOnce ==
    [][\A k \in DOMAIN casePc :
          /\ CasePcRank(casePc'[k]) >= CasePcRank(casePc[k])
          /\ (casePc[k] = "r237" /\ casePc'[k] # "r237") =>
                /\ k \notin DOMAIN call_return
                /\ k \notin DOMAIN case_result
          /\ (casePc'[k] = "done" /\ casePc[k] # "done" /\ route[k[2]] = "rejected") =>
                /\ case_progress'[k] = StatusError
                /\ "error" \in case_result'[k].tokens]_vars

\* a case whose call was refused has ended while another case of the run has
\* been called and is waiting for its answer
C28_Witness ==
    \E k \in DOMAIN casePc, j \in DOMAIN casePc :
       /\ route[k[2]] = "rejected" /\ casePc[k] = "done"
       /\ case_progress[k] = StatusError
       /\ casePc[j] = "await"

\* ---------------------------------------------------------------- claims C31..C38
\* the entries of a dict of the tester, or of the values handed upward, that
\* belong to round r
SubtreeOf(f, r) == [k \in {x \in DOMAIN f : x[1] = r} |-> f[k]]
EntryOf(f, r) == IF r \in DOMAIN f THEN <<f[r]>> ELSE <<>>

\* the progress nodes and the result entries of round r
RoundSubtree(r) ==
    <<EntryOf(round_progress, r), SubtreeOf(prompt_progress, r),
      SubtreeOf(case_progress, r), SubtreeOf(call_return, r),
      SubtreeOf(case_result, r), SubtreeOf(prompt_results, r),
      EntryOf(all_results, r)>>

\* the rounds one of whose tasks (the round itself, a prompt or a case of it)
\* takes the step
StepRounds ==
    {r \in AllRounds :
        \/ roundPc'[r] # roundPc[r]
        \/ \E p \in Prompts : promptPc'[<<r, p>>] # promptPc[<<r, p>>]
        \/ \E p \in Prompts, i \in AllCaseIdx :
              casePc'[<<r, p, i>>] # casePc[<<r, p, i>>]}

\* C31: a step that is not one of run() itself is taken by the tasks of at most
\* one round, and it leaves the progress nodes and the result entries of every
\* other round as they are; a step of run() itself (making the round tasks,
\* gathering them, writing the report) changes no round's subtree.
C31_RoundWritesOwnSubtree ==
    [][IF mainPc' # mainPc
       THEN \A r \in AllRounds : RoundSubtree(r)' = RoundSubtree(r)
       ELSE /\ Cardinality(StepRounds) <= 1
            /\ \A r \in AllRounds :
                  r \notin StepRounds => RoundSubtree(r)' = RoundSubtree(r)]_vars

\* two rounds run side by side: a case of each is waiting for its provider
C31_Witness ==
    \E k1, k2 \in DOMAIN casePc :
        /\ k1[1] = 1 /\ k2[1] = 2
        /\ casePc[k1] = "await" /\ casePc[k2] = "await"
        /\ 1 \in DOMAIN round_progress /\ 2 \in DOMAIN round_progress

\* the provider call of WorkItem k has come back with the provider's error tuple
ProviderCallFailed(k) ==
    k \in DOMAIN call_return /\ "error" \in call_return[k].tokens
\* call_api has refused WorkItem k before any provider was contacted
CallRejected(k) == k \in WorkItems /\ route[k[2]] = "rejected"

\* C32: a case that has reached a terminal status has the error status exactly
\* when its invocation failed (call_api refused it or the provider call failed),
\* and the status done exactly when its call succeeded.
C32_FailedIffInvocationFailed ==
    \A k \in TerminalCases :
        /\ case_progress[k] = StatusError <=> (CallRejected(k) \/ ProviderCallFailed(k))
        /\ case_progress[k] = StatusList[6] <=>
              (k \in DOMAIN call_return /\ ~ProviderCallFailed(k))

\* the invocation of WorkItem k has failed: refused by call_api or failed at the
\* provider
UnitFailed(k) == CallRejected(k) \/ ProviderCallFailed(k)

\* a result of WorkItem k that reports the failure
FailureRecord(res, k) ==
    /\ res.output_content = "error_text"
    /\ res.tokens \cap TokenCountKeys = {}
    /\ res.prompt_name = k[2]
    /\ res.vendor = PromptConfig(k[2]).vendor
    /\ res.model = PromptConfig(k[2]).model
    /\ res.case_id = k[3]

\* C33: the result of a unit whose invocation failed, as returned by its case
\* task and as it stands in the prompt's list and in the RunResult, has the
\* error text as output, no token count in its usage record, and the prompt
\* name, vendor, model and case identity of its WorkItem.
C33_FailedResultCarriesError ==
    /\ \A k \in DOMAIN case_result :
          UnitFailed(k) => FailureRecord(case_result[k], k)
    /\ \A kp \in DOMAIN prompt_results :
          \A j \in DOMAIN prompt_results[kp] :
             LET k == <<kp[1], kp[2], j - 1>>
             IN UnitFailed(k) => FailureRecord(prompt_results[kp][j], k)
    /\ \A r \in DOMAIN all_rounds_results :
          \A p \in DOMAIN all_rounds_results[r] :
             \A j \in DOMAIN all_rounds_results[r][p] :
                LET k == <<r, p, j - 1>>
                IN UnitFailed(k) => FailureRecord(all_rounds_results[r][p][j], k)

\* the RunResult holds the result of a unit refused by call_api and the result
\* of a unit whose provider call failed
C33_Witness ==
    /\ Assembled
    /\ \E k1, k2 \in WorkItems :
          /\ CallRejected(k1) /\ ProviderCallFailed(k2)
          /\ k1[1] \in DOMAIN all_rounds_results
          /\ k1[2] \in DOMAIN all_rounds_results[k1[1]]
          /\ k2[1] \in DOMAIN all_rounds_results
          /\ k2[2] \in DOMAIN all_rounds_results[k2[1]]

\* the run has left run(): the report is written or the report writer has raised
RunReturned == mainPc \in {"completed", "fatal"}

\* C34: with gate capacities of at least 1 and provider calls that come back,
\* every run comes to its end, with every WorkItem admitted and in a terminal
\* status and with no slot and no lock left held: no interleaving of rounds,
\* prompts and cases is stuck at a gate, at a gather or at the progress lock.
C34_RunTerminates ==
    <>(/\ RunReturned
       /\ WorkItems \subseteq TerminalCases
       /\ \A k \in WorkItems : casePc[k] = "done"
       /\ console_lock = None
       /\ HeldRoundSlots = 0 /\ HeldPromptSlots = 0 /\ HeldCaseSlots = 0)

\* a run has come to its end in which two prompts had to share the one slot of
\* the prompt gate and the two cases of one of them the one slot of its case gate
C34_Witness ==
    /\ RunReturned
    /\ selected_prompts = {"A", "B"} /\ max_prompt_concurrency = 1
    /\ cases_map["A"] = 2 /\ cases_map["B"] = 1 /\ max_case_concurrency = 1
    /\ WorkItems \subseteq TerminalCases

\* C35: once run() has written its report and completed, the global completed
\* counter equals the global total, every round has its node with completed
\* equal to total (a round without any case has no node), and every selected
\* prompt with cases has, in every round, its node with completed equal to total.
C35_AllNodesFullAtCompletion ==
    mainPc = "completed" =>
        /\ completed_cases = total_cases
        /\ total_cases = test_rounds * CasesPerRound
        /\ \A r \in DOMAIN round_progress :
              round_progress[r].completed = round_progress[r].total
        /\ \A k \in DOMAIN prompt_progress :
              prompt_progress[k].completed = prompt_progress[k].total
        /\ CasesPerRound > 0 => DOMAIN round_progress = Rounds
        /\ \A r \in Rounds, p \in selected_prompts :
              cases_map[p] > 0 => PromptKey(r, p) \in DOMAIN prompt_progress

\* a completed run of two rounds with two prompts that have cases
C35_Witness ==
    /\ mainPc = "completed"
    /\ test_rounds = 2
    /\ \A p \in Prompts : p \in selected_prompts /\ cases_map[p] > 0
    /\ completed_cases = 4

\* C36: the results of a prompt in a round stand in the order of the prompt's
\* case list, in the list that run_test returns and in the RunResult: the j-th
\* result is the result of the j-th case, whatever the order in which the case
\* tasks finished.
C36_ResultsInCaseOrder ==
    /\ \A kp \in DOMAIN prompt_results :
          \A j \in DOMAIN prompt_results[kp] :
             /\ prompt_results[kp][j].case_id = j - 1
             /\ prompt_results[kp][j] = case_result[CaseKey(kp[1], kp[2], j - 1)]
    /\ \A r \in DOMAIN all_rounds_results :
          \A p \in DOMAIN all_rounds_results[r] :
             \A j \in DOMAIN all_rounds_results[r][p] :
                all_rounds_results[r][p][j] = case_result[CaseKey(r, p, j - 1)]

\* the RunResult holds the two results of a prompt whose second case finished
\* before its first
C36_Witness ==
    /\ Assembled
    /\ \E kp \in DOMAIN returned :
          /\ returned[kp] = <<1, 0>>
          /\ kp[1] \in DOMAIN all_rounds_results
          /\ kp[2] \in DOMAIN all_rounds_results[kp[1]]
          /\ Len(all_rounds_results[kp[1]][kp[2]]) = 2

\* C37: for a WorkItem whose call is refused by call_api no provider is
\* contacted; its case ends with the error status; its result has the error text
\* as output, elapsed time 0 and the error usage record; the completed counters
\* count it once; and the run goes on: the RunResult holds one result of every
\* WorkItem.
C37_RejectedCallIsRecorded ==
    \A k \in WorkItems :
        CallRejected(k) =>
            /\ k \notin DOMAIN call_return
            /\ k \in TerminalCases => case_progress[k] = StatusError
            /\ k \in DOMAIN case_result =>
                  /\ k \in TerminalCases
                  /\ case_result[k].output_content = "error_text"
                  /\ case_result[k].elapsed_time = "zero"
                  /\ case_result[k].tokens = {"error"}
            /\ PromptKey(k[1], k[2]) \in DOMAIN prompt_progress =>
                  prompt_progress[PromptKey(k[1], k[2])].completed =
                     Cardinality(TerminalCasesOf(PromptKey(k[1], k[2])))
            /\ mainPc # "idle" => completed_cases = Cardinality(TerminalCases)
            /\ Assembled => \A k2 \in WorkItems : CountOf(k2) = 1

\* the RunResult holds the result of a refused call and the answer of a call
\* that was made after it
C37_Witness ==
    /\ Assembled
    /\ \E k1, k2 \in WorkItems :
          /\ CallRejected(k1) /\ CountOf(k1) = 1
          /\ k2 \in DOMAIN call_return /\ ~ProviderCallFailed(k2)
          /\ case_progress[k2] = StatusList[6] /\ CountOf(k2) = 1

\* the args of a case as process_prompt reads them: the "args" entry if it is a
\* dict, otherwise none
ArgsOf(c) == IF c.args.kind = "dict" THEN c.args.dict ELSE EmptyMap

\* the prompt in which every placeholder with a name in args stands replaced by
\* the string form of its value and every other piece is as in the template
RECURSIVE Substituted(_, _)
Substituted(prompt, args) ==
    IF prompt = <<>> THEN <<>>
    ELSE (IF Head(prompt) \in DOMAIN args
          THEN Str(args[Head(prompt)]) ELSE <<Head(prompt)>>)
         \o Substituted(Tail(prompt), args)

\* C38: process_prompt does not raise, and the prompt it returns is the template
\* with every placeholder whose name is a key of the case's args replaced by
\* the string form of its value and every other placeholder left as it is.
C38_PlaceholdersResolved ==
    resolved # <<>> =>
        /\ ~resolved[1].raised
        /\ resolved[1].prompt = Substituted(prompt_config.prompt, ArgsOf(case))

====
